---- MODULE Spec2Model ----
(***************************************************************************)
(* Model of src/index.js: a fleet of DeviceHeartbeatBot agents on one      *)
(* Node.js event loop.  One step of the model is one run-to-completion     *)
(* turn of the event loop: a timer callback up to its first await, the     *)
(* continuation that a settled request promise resumes (up to the next     *)
(* await or the end of the callback), or the delivery of SIGINT to every   *)
(* registered listener.  Timers and requests carry no duration: a timer    *)
(* may fire, and a response may arrive, at any turn.                       *)
(*                                                                         *)
(* The firings of one agent's timer hold no state of their own beyond      *)
(* their position in the callback, so tick[a][p] counts the firings of     *)
(* agent a that are at position p.  The history variables onIssued,        *)
(* offIssued, hbIssued, walletIssued and last record what was requested    *)
(* and which step ran last; no action reads them.                          *)
(***************************************************************************)
EXTENDS Integers, FiniteSets, Sequences, TLC

\* ---- bounds ------------------------------------------------------------
NAgents == 2        \* accounts in accounts.json
MaxTicks == 2       \* timer firings modelled, over the whole fleet
MaxSigint == 1      \* interrupt signals delivered

Agents == 1..NAgents
TickPos == {"toggle", "heartbeat", "wallet", "done", "threw"}

\* ---- outcomes of cloudscraper.post -------------------------------------
\* "ok"        2xx, body without error flag
\* "apiError"  2xx, body carries error: true
\* "httpError" non-2xx status (promise rejects)
\* "netError"  transport failure (promise rejects)
Outcomes == {"ok", "apiError", "httpError", "netError"}

\* the awaited promise resolves (no exception is thrown at the await)
Resolves(o) == o \in {"ok", "apiError"}

VARIABLES
  pc,             \* per agent: position inside startHeartbeatCycle
  toggleState,    \* this.toggleState
  uptimeMinutes,  \* this.uptimeMinutes
  cycleCount,     \* closure variable cycleCount
  timer,          \* the setInterval timer exists and is not cleared
  handler,        \* number of SIGINT listeners this agent has registered
  tick,           \* per agent, per position of the callback: firings that are there
  offPending,     \* SIGINT listeners awaiting their toggleDevice("OFF")
  sigints,        \* signals delivered so far
  exited,         \* the process has terminated
  onIssued,       \* history: toggle requests with state "ON" issued
  offIssued,      \* history: toggle requests with state "OFF" issued
  hbIssued,       \* history: heartbeat requests issued
  walletIssued,   \* history: wallet-details requests issued
  last            \* history: the step taken last

vars == <<pc, toggleState, uptimeMinutes, cycleCount, timer, handler, tick,
          offPending, sigints, exited, onIssued, offIssued, hbIssued,
          walletIssued, last>>

RECURSIVE Sum(_, _)
Sum(f, S) == IF S = {} THEN 0
             ELSE LET x == CHOOSE y \in S : TRUE IN f[x] + Sum(f, S \ {x})

\* timer firings so far, all agents together
TicksFired == Sum(cycleCount, Agents)

\* ---- accounts.json: one record per agent (lines 10, 18) ------------------
\* a device hash is a number in one account and a string in the next
Account(a) ==
  [walletAddress |-> "0x" \o ToString(a),
   deviceHash |-> IF a % 2 = 1 THEN [kind |-> "number", val |-> 100 + a]
                              ELSE [kind |-> "string", val |-> "d" \o ToString(a)]]

\* constructor, lines 20-21
whitelistedUrls == <<"naorisprotocol.network", "google.com">>
isInstalled == TRUE

\* this.deviceHash.toString(), line 95
HashToString(h) == IF h.kind = "number" THEN ToString(h.val) ELSE h.val

\* variant of HeartbeatPayload: the payload reports the device as on, whatever
\* this.toggleState is
HeartbeatPayloadAlwaysOn(a, ts) ==
  [topic |-> "device-heartbeat",
   walletAddress |-> Account(a).walletAddress,
   deviceHash |-> HashToString(Account(a).deviceHash),
   isInstalled |-> isInstalled,
   toggleState |-> TRUE,
   whitelistedUrls |-> whitelistedUrls]

\* ---- sendHeartbeat, lines 91-100: the payload, ts is this.toggleState ----
HeartbeatPayload(a, ts) ==
  [topic |-> "device-heartbeat",
   walletAddress |-> Account(a).walletAddress,
   deviceHash |-> HashToString(Account(a).deviceHash),
   isInstalled |-> isInstalled,
   toggleState |-> ts,
   whitelistedUrls |-> whitelistedUrls]

\* ---- wallet-details of an account, as the server reports them -----------
\* rates are counted in millionths per minute: 500000 is 0.5, 40 is 0.00004;
\* the second account's details carry no activeRatePerMinute
WalletDetails(a) ==
  CASE a % 3 = 1 -> [hasRate |-> TRUE, rate |-> 500000]
    [] a % 3 = 2 -> [hasRate |-> FALSE, rate |-> 0]
    [] OTHER -> [hasRate |-> TRUE, rate |-> 40]

\* line 183: this.uptimeMinutes * (details.activeRatePerMinute || 0)
EstimatedEarnings(uptime, details) ==
  uptime * (IF details.hasRate THEN details.rate ELSE 0)

\* earnings.toFixed(4), line 188: millionths rounded to ten-thousandths
ToFixed4(v) == (v + 50) \div 100

\* ---- logWalletDetails, lines 182-189: what the report shows --------------
LogWalletDetails(uptime, details) ==
  [earnings |-> EstimatedEarnings(uptime, details),
   shown |-> ToFixed4(EstimatedEarnings(uptime, details))]

\* variant of WalletReport: the test of response.error (line 124) is missing
WalletReportNoErrorCheck(a, uptime, o) ==
  IF Resolves(o) THEN <<LogWalletDetails(uptime, WalletDetails(a))>> ELSE <<>>

\* ---- getWalletDetails, lines 124-131: the report a response causes -------
\* the report is written only when the response resolves without error flag
WalletReport(a, uptime, o) ==
  IF o = "ok" THEN <<LogWalletDetails(uptime, WalletDetails(a))>> ELSE <<>>

\* history record of a step: hb holds the heartbeat payload the step issued,
\* est the earnings report it logged (each empty when there is none)
Step(op, a) == [op |-> op, a |-> a, hb |-> <<>>, est |-> <<>>]
StepHb(op, a, ts) == [Step(op, a) EXCEPT !.hb = <<HeartbeatPayload(a, ts)>>]
StepEst(op, a, report) == [Step(op, a) EXCEPT !.est = report]

\* ---- constructor (lines 9-27) and main up to line 213 ------------------
Init ==
  /\ pc = [a \in Agents |-> "constructed"]
  /\ toggleState = [a \in Agents |-> TRUE]
  /\ uptimeMinutes = [a \in Agents |-> 0]
  /\ cycleCount = [a \in Agents |-> 0]
  /\ timer = [a \in Agents |-> FALSE]
  /\ handler = [a \in Agents |-> 0]
  /\ tick = [a \in Agents |-> [p \in TickPos |-> 0]]
  /\ offPending = [a \in Agents |-> 0]
  /\ sigints = 0
  /\ exited = FALSE
  /\ onIssued = [a \in Agents |-> 0]
  /\ offIssued = [a \in Agents |-> 0]
  /\ hbIssued = [a \in Agents |-> 0]
  /\ walletIssued = [a \in Agents |-> 0]
  /\ last = Step("Init", 0)

\* variant of ToggleResult: line 80 placed where a rejected request reaches it
ToggleResultAlways(cur, state, o) == state = "ON"

\* variant of ToggleResult: a rejected request marks the device as off
ToggleResultFailOff(cur, state, o) == IF Resolves(o) THEN state = "ON" ELSE FALSE

\* ---- toggleDevice (lines 65-86): value of toggleState after the await --
\* line 80 runs whenever the promise resolves; response.error is not read
ToggleResult(cur, state, o) == IF Resolves(o) THEN state = "ON" ELSE cur

\* ---- main line 215: bots.forEach(bot => bot.startHeartbeatCycle()) -----
\* every agent runs up to the await inside its opening toggleDevice("ON")
MainStart ==
  /\ ~exited
  /\ \A a \in Agents : pc[a] = "constructed"
  /\ pc' = [a \in Agents |-> "openToggle"]
  /\ onIssued' = [a \in Agents |-> onIssued[a] + 1]
  /\ last' = Step("MainStart", 0)
  /\ UNCHANGED <<toggleState, uptimeMinutes, cycleCount, timer, handler, tick,
                 offPending, sigints, exited, offIssued, hbIssued, walletIssued>>

\* variant of OpenToggleDone: a rejected toggle escapes toggleDevice and lands
\* in the catch of line 169, so lines 137-168 are skipped
OpenToggleDonePropagates(a, o) ==
  /\ ~exited
  /\ pc[a] = "openToggle"
  /\ toggleState' = [toggleState EXCEPT ![a] = ToggleResult(toggleState[a], "ON", o)]
  /\ IF Resolves(o)
       THEN /\ pc' = [pc EXCEPT ![a] = "openHeartbeat"]
            /\ hbIssued' = [hbIssued EXCEPT ![a] = @ + 1]
            /\ last' = StepHb("OpenToggleDone", a, ToggleResult(toggleState[a], "ON", o))
       ELSE /\ pc' = [pc EXCEPT ![a] = "running"]
            /\ last' = Step("OpenToggleDone", a)
            /\ UNCHANGED hbIssued
  /\ UNCHANGED <<uptimeMinutes, cycleCount, timer, handler, tick, offPending,
                 sigints, exited, onIssued, offIssued, walletIssued>>

\* ---- line 136 settles, line 137 issues the opening heartbeat -----------
OpenToggleDone(a, o) ==
  /\ ~exited
  /\ pc[a] = "openToggle"
  /\ toggleState' = [toggleState EXCEPT ![a] = ToggleResult(toggleState[a], "ON", o)]
  /\ pc' = [pc EXCEPT ![a] = "openHeartbeat"]
  /\ hbIssued' = [hbIssued EXCEPT ![a] = @ + 1]
  /\ last' = StepHb("OpenToggleDone", a, ToggleResult(toggleState[a], "ON", o))
  /\ UNCHANGED <<uptimeMinutes, cycleCount, timer, handler, tick, offPending,
                 sigints, exited, onIssued, offIssued, walletIssued>>

\* variant of OpenHeartbeatDone: a rejected heartbeat escapes sendHeartbeat
\* and lands in the catch of line 169, so lines 139-168 are skipped
OpenHeartbeatDonePropagates(a, o) ==
  /\ ~exited
  /\ pc[a] = "openHeartbeat"
  /\ pc' = [pc EXCEPT ![a] = "running"]
  /\ cycleCount' = [cycleCount EXCEPT ![a] = 0]
  /\ timer' = [timer EXCEPT ![a] = Resolves(o)]
  /\ handler' = [handler EXCEPT ![a] = IF Resolves(o) THEN @ + 1 ELSE @]
  /\ last' = Step("OpenHeartbeatDone", a)
  /\ UNCHANGED <<toggleState, uptimeMinutes, tick, offPending, sigints, exited,
                 onIssued, offIssued, hbIssued, walletIssued>>

\* ---- line 137 settles; lines 139-168 register timer and listener -------
OpenHeartbeatDone(a, o) ==
  /\ ~exited
  /\ pc[a] = "openHeartbeat"
  /\ pc' = [pc EXCEPT ![a] = "running"]
  /\ cycleCount' = [cycleCount EXCEPT ![a] = 0]
  /\ timer' = [timer EXCEPT ![a] = TRUE]
  /\ handler' = [handler EXCEPT ![a] = @ + 1]
  /\ last' = Step("OpenHeartbeatDone", a)
  /\ UNCHANGED <<toggleState, uptimeMinutes, tick, offPending, sigints, exited,
                 onIssued, offIssued, hbIssued, walletIssued>>

\* variant of TickStart: the increment of line 143 is missing
TickStartNoCount(a) ==
  /\ ~exited
  /\ timer[a]
  /\ TicksFired < MaxTicks
  /\ cycleCount' = [cycleCount EXCEPT ![a] = @ + 1]
  /\ UNCHANGED uptimeMinutes
  /\ IF ~toggleState[a]
       THEN /\ tick' = [tick EXCEPT ![a]["toggle"] = @ + 1]
            /\ onIssued' = [onIssued EXCEPT ![a] = @ + 1]
            /\ last' = Step("TickStart", a)
            /\ UNCHANGED hbIssued
       ELSE /\ tick' = [tick EXCEPT ![a]["heartbeat"] = @ + 1]
            /\ hbIssued' = [hbIssued EXCEPT ![a] = @ + 1]
            /\ last' = StepHb("TickStart", a, toggleState[a])
            /\ UNCHANGED onIssued
  /\ UNCHANGED <<pc, toggleState, timer, handler, offPending, sigints, exited,
                 offIssued, walletIssued>>

\* variant of TickStart: the re-check of lines 149-151 is missing
TickStartNoRecheck(a) ==
  /\ ~exited
  /\ timer[a]
  /\ TicksFired < MaxTicks
  /\ cycleCount' = [cycleCount EXCEPT ![a] = @ + 1]
  /\ uptimeMinutes' = [uptimeMinutes EXCEPT ![a] = @ + 1]
  /\ tick' = [tick EXCEPT ![a]["heartbeat"] = @ + 1]
  /\ hbIssued' = [hbIssued EXCEPT ![a] = @ + 1]
  /\ last' = StepHb("TickStart", a, toggleState[a])
  /\ UNCHANGED <<pc, toggleState, timer, handler, offPending, sigints, exited,
                 onIssued, offIssued, walletIssued>>

\* variant of TickStart: sendHeartbeat is not awaited, so the wallet-details
\* request goes out in the same turn as the heartbeat
TickStartNoAwait(a) ==
  /\ ~exited
  /\ timer[a]
  /\ TicksFired < MaxTicks
  /\ cycleCount' = [cycleCount EXCEPT ![a] = @ + 1]
  /\ uptimeMinutes' = [uptimeMinutes EXCEPT ![a] = @ + 1]
  /\ IF ~toggleState[a]
       THEN /\ tick' = [tick EXCEPT ![a]["toggle"] = @ + 1]
            /\ onIssued' = [onIssued EXCEPT ![a] = @ + 1]
            /\ last' = Step("TickStart", a)
            /\ UNCHANGED <<hbIssued, walletIssued>>
       ELSE /\ tick' = [tick EXCEPT ![a]["wallet"] = @ + 1]
            /\ hbIssued' = [hbIssued EXCEPT ![a] = @ + 1]
            /\ walletIssued' = [walletIssued EXCEPT ![a] = @ + 1]
            /\ last' = StepHb("TickStart", a, toggleState[a])
            /\ UNCHANGED onIssued
  /\ UNCHANGED <<pc, toggleState, timer, handler, offPending, sigints, exited,
                 offIssued>>

\* variant of TickStart: a firing is skipped while an earlier one of the same
\* agent is still in flight
TickStartSkipIfBusy(a) ==
  /\ ~exited
  /\ timer[a]
  /\ TicksFired < MaxTicks
  /\ tick[a]["toggle"] + tick[a]["heartbeat"] + tick[a]["wallet"] = 0
  /\ cycleCount' = [cycleCount EXCEPT ![a] = @ + 1]
  /\ uptimeMinutes' = [uptimeMinutes EXCEPT ![a] = @ + 1]
  /\ IF ~toggleState[a]
       THEN /\ tick' = [tick EXCEPT ![a]["toggle"] = @ + 1]
            /\ onIssued' = [onIssued EXCEPT ![a] = @ + 1]
            /\ last' = Step("TickStart", a)
            /\ UNCHANGED hbIssued
       ELSE /\ tick' = [tick EXCEPT ![a]["heartbeat"] = @ + 1]
            /\ hbIssued' = [hbIssued EXCEPT ![a] = @ + 1]
            /\ last' = StepHb("TickStart", a, toggleState[a])
            /\ UNCHANGED onIssued
  /\ UNCHANGED <<pc, toggleState, timer, handler, offPending, sigints, exited,
                 offIssued, walletIssued>>

\* ---- timer callback, lines 141-153, up to its first await --------------
\* the wake-up notice of lines 145-147 writes to the console only
TickStart(a) ==
  /\ ~exited
  /\ timer[a]
  /\ TicksFired < MaxTicks
  /\ cycleCount' = [cycleCount EXCEPT ![a] = @ + 1]
  /\ uptimeMinutes' = [uptimeMinutes EXCEPT ![a] = @ + 1]
  /\ IF ~toggleState[a]
       THEN /\ tick' = [tick EXCEPT ![a]["toggle"] = @ + 1]
            /\ onIssued' = [onIssued EXCEPT ![a] = @ + 1]
            /\ last' = Step("TickStart", a)
            /\ UNCHANGED hbIssued
       ELSE /\ tick' = [tick EXCEPT ![a]["heartbeat"] = @ + 1]
            /\ hbIssued' = [hbIssued EXCEPT ![a] = @ + 1]
            /\ last' = StepHb("TickStart", a, toggleState[a])
            /\ UNCHANGED onIssued
  /\ UNCHANGED <<pc, toggleState, timer, handler, offPending, sigints, exited,
                 offIssued, walletIssued>>

\* ---- line 150 settles, line 153 issues the heartbeat -------------------
TickToggleDone(a, o) ==
  /\ ~exited
  /\ tick[a]["toggle"] > 0
  /\ toggleState' = [toggleState EXCEPT ![a] = ToggleResult(toggleState[a], "ON", o)]
  /\ tick' = [tick EXCEPT ![a]["toggle"] = @ - 1, ![a]["heartbeat"] = @ + 1]
  /\ hbIssued' = [hbIssued EXCEPT ![a] = @ + 1]
  /\ last' = StepHb("TickToggleDone", a, ToggleResult(toggleState[a], "ON", o))
  /\ UNCHANGED <<pc, uptimeMinutes, cycleCount, timer, handler, offPending,
                 sigints, exited, onIssued, offIssued, walletIssued>>

\* variant of TickHeartbeatDone: a rejected heartbeat escapes sendHeartbeat
\* and lands in the catch of lines 156-160
TickHeartbeatDoneThrows(a, o) ==
  /\ ~exited
  /\ tick[a]["heartbeat"] > 0
  /\ IF Resolves(o)
       THEN /\ tick' = [tick EXCEPT ![a]["heartbeat"] = @ - 1, ![a]["wallet"] = @ + 1]
            /\ walletIssued' = [walletIssued EXCEPT ![a] = @ + 1]
            /\ UNCHANGED toggleState
       ELSE /\ tick' = [tick EXCEPT ![a]["heartbeat"] = @ - 1, ![a]["threw"] = @ + 1]
            /\ toggleState' = [toggleState EXCEPT ![a] = FALSE]
            /\ UNCHANGED walletIssued
  /\ last' = Step("TickHeartbeatDone", a)
  /\ UNCHANGED <<pc, uptimeMinutes, cycleCount, timer, handler,
                 offPending, sigints, exited, onIssued, offIssued, hbIssued>>

\* ---- line 153 settles, line 154 issues the wallet-details request ------
TickHeartbeatDone(a, o) ==
  /\ ~exited
  /\ tick[a]["heartbeat"] > 0
  /\ tick' = [tick EXCEPT ![a]["heartbeat"] = @ - 1, ![a]["wallet"] = @ + 1]
  /\ walletIssued' = [walletIssued EXCEPT ![a] = @ + 1]
  /\ last' = Step("TickHeartbeatDone", a)
  /\ UNCHANGED <<pc, toggleState, uptimeMinutes, cycleCount, timer, handler,
                 offPending, sigints, exited, onIssued, offIssued, hbIssued>>

\* variant of TickWalletDone: the uptime is counted at the end of a tick
\* whose wallet-details call succeeded
TickWalletDoneCounts(a, o, threw) ==
  /\ ~exited
  /\ tick[a]["wallet"] > 0
  /\ IF threw
       THEN /\ tick' = [tick EXCEPT ![a]["wallet"] = @ - 1, ![a]["threw"] = @ + 1]
            /\ toggleState' = [toggleState EXCEPT ![a] = FALSE]
       ELSE /\ tick' = [tick EXCEPT ![a]["wallet"] = @ - 1, ![a]["done"] = @ + 1]
            /\ UNCHANGED toggleState
  /\ uptimeMinutes' = [uptimeMinutes EXCEPT ![a] = IF o = "ok" THEN @ + 1 ELSE @]
  /\ last' = StepEst("TickWalletDone", a, WalletReport(a, uptimeMinutes[a], o))
  /\ UNCHANGED <<pc, cycleCount, timer, handler, offPending,
                 sigints, exited, onIssued, offIssued, hbIssued, walletIssued>>

\* variant of TickWalletDone: the catch of lines 156-160 also clears the timer
TickWalletDoneStopsTimer(a, o, threw) ==
  /\ ~exited
  /\ tick[a]["wallet"] > 0
  /\ IF threw
       THEN /\ tick' = [tick EXCEPT ![a]["wallet"] = @ - 1, ![a]["threw"] = @ + 1]
            /\ toggleState' = [toggleState EXCEPT ![a] = FALSE]
            /\ timer' = [timer EXCEPT ![a] = FALSE]
       ELSE /\ tick' = [tick EXCEPT ![a]["wallet"] = @ - 1, ![a]["done"] = @ + 1]
            /\ UNCHANGED <<toggleState, timer>>
  /\ last' = StepEst("TickWalletDone", a, WalletReport(a, uptimeMinutes[a], o))
  /\ UNCHANGED <<pc, uptimeMinutes, cycleCount, handler, offPending,
                 sigints, exited, onIssued, offIssued, hbIssued, walletIssued>>

\* variant of TickWalletDone: toggleState is one flag shared by the fleet
TickWalletDoneShared(a, o, threw) ==
  /\ ~exited
  /\ tick[a]["wallet"] > 0
  /\ IF threw
       THEN /\ tick' = [tick EXCEPT ![a]["wallet"] = @ - 1, ![a]["threw"] = @ + 1]
            /\ toggleState' = [b \in Agents |-> FALSE]
       ELSE /\ tick' = [tick EXCEPT ![a]["wallet"] = @ - 1, ![a]["done"] = @ + 1]
            /\ UNCHANGED toggleState
  /\ last' = StepEst("TickWalletDone", a, WalletReport(a, uptimeMinutes[a], o))
  /\ UNCHANGED <<pc, uptimeMinutes, cycleCount, timer, handler, offPending,
                 sigints, exited, onIssued, offIssued, hbIssued, walletIssued>>

\* ---- line 154 settles; line 155 logs, or lines 156-160 catch -----------
\* threw: the statement of line 155 raises, the one fault of the callback
\* body that no callee's own try/catch absorbs
TickWalletDone(a, o, threw) ==
  /\ ~exited
  /\ tick[a]["wallet"] > 0
  /\ IF threw
       THEN /\ tick' = [tick EXCEPT ![a]["wallet"] = @ - 1, ![a]["threw"] = @ + 1]
            /\ toggleState' = [toggleState EXCEPT ![a] = FALSE]
       ELSE /\ tick' = [tick EXCEPT ![a]["wallet"] = @ - 1, ![a]["done"] = @ + 1]
            /\ UNCHANGED toggleState
  /\ last' = StepEst("TickWalletDone", a, WalletReport(a, uptimeMinutes[a], o))
  /\ UNCHANGED <<pc, uptimeMinutes, cycleCount, timer, handler, offPending,
                 sigints, exited, onIssued, offIssued, hbIssued, walletIssued>>

\* ---- SIGINT: lines 163-165 of every registered listener ----------------
\* with no listener registered Node's default disposition ends the process
Sigint ==
  /\ ~exited
  /\ sigints < MaxSigint
  /\ sigints' = sigints + 1
  /\ IF \A a \in Agents : handler[a] = 0
       THEN /\ exited' = TRUE
            /\ UNCHANGED <<timer, offPending, offIssued>>
       ELSE /\ exited' = FALSE
            /\ timer' = [a \in Agents |-> IF handler[a] > 0 THEN FALSE ELSE timer[a]]
            /\ offPending' = [a \in Agents |-> offPending[a] + handler[a]]
            /\ offIssued' = [a \in Agents |-> offIssued[a] + handler[a]]
  /\ last' = Step("Sigint", 0)
  /\ UNCHANGED <<pc, toggleState, uptimeMinutes, cycleCount, handler, tick,
                 onIssued, hbIssued, walletIssued>>

\* variant of OffDone: process.exit() is reached only when the request resolved
OffDoneExitOnSuccess(a, o) ==
  /\ ~exited
  /\ offPending[a] > 0
  /\ toggleState' = [toggleState EXCEPT ![a] = ToggleResult(toggleState[a], "OFF", o)]
  /\ offPending' = [offPending EXCEPT ![a] = @ - 1]
  /\ exited' = Resolves(o)
  /\ last' = Step("OffDone", a)
  /\ UNCHANGED <<pc, uptimeMinutes, cycleCount, timer, handler, tick, sigints,
                 onIssued, offIssued, hbIssued, walletIssued>>

\* ---- line 165 settles; lines 166-167 exit the process ------------------
OffDone(a, o) ==
  /\ ~exited
  /\ offPending[a] > 0
  /\ toggleState' = [toggleState EXCEPT ![a] = ToggleResult(toggleState[a], "OFF", o)]
  /\ offPending' = [offPending EXCEPT ![a] = @ - 1]
  /\ exited' = TRUE
  /\ last' = Step("OffDone", a)
  /\ UNCHANGED <<pc, uptimeMinutes, cycleCount, timer, handler, tick, sigints,
                 onIssued, offIssued, hbIssued, walletIssued>>

Next ==
  \/ MainStart
  \/ \E a \in Agents, o \in Outcomes : OpenToggleDone(a, o)
  \/ \E a \in Agents, o \in Outcomes : OpenHeartbeatDone(a, o)
  \/ \E a \in Agents : TickStart(a)
  \/ \E a \in Agents, o \in Outcomes : TickToggleDone(a, o)
  \/ \E a \in Agents, o \in Outcomes : TickHeartbeatDone(a, o)
  \/ \E a \in Agents, o \in Outcomes, threw \in BOOLEAN :
        TickWalletDone(a, o, threw)
  \/ Sigint
  \/ \E a \in Agents, o \in Outcomes : OffDone(a, o)

Spec == Init /\ [][Next]_vars

\* Of the assumption that every issued request eventually returns a response
\* or an error, the part about the final OFF requests
OffFairness == \A a \in Agents : WF_vars(\E o \in Outcomes : OffDone(a, o))

FairSpec == Spec /\ OffFairness

\* setInterval, line 161: a registered timer that is due does fire
TickFairness == \A a \in Agents : WF_vars(TickStart(a))

TickFairSpec == Spec /\ TickFairness

\* ---- derived quantities -------------------------------------------------
TicksInFlight(a) == tick[a]["toggle"] + tick[a]["heartbeat"] + tick[a]["wallet"]
TicksCompleted(a) == tick[a]["done"] + tick[a]["threw"]
Failed(o) == o \in {"apiError", "httpError", "netError"}

\* ---- C1 ------------------------------------------------------------------
\* C1 as stated: in every reachable state uptimeMinutes of an agent equals the
\* number of its ticks that have run to completion.
C1_UptimeEqualsCompletedTicks ==
  \A a \in Agents : uptimeMinutes[a] = TicksCompleted(a)

\* C1 amended: in every reachable state uptimeMinutes of an agent equals the
\* number of its ticks that have started, completed or still in flight, so it
\* equals the number of completed ticks exactly when none is in flight.
C1_UptimeEqualsStartedTicks ==
  \A a \in Agents :
     /\ uptimeMinutes[a] = TicksCompleted(a) + TicksInFlight(a)
     /\ uptimeMinutes[a] = cycleCount[a]

C1_Witness ==
  \E a \in Agents :
     /\ uptimeMinutes[a] = 2
     /\ TicksCompleted(a) = 1
     /\ TicksInFlight(a) = 1

\* ---- C2 ------------------------------------------------------------------
\* C2: a toggle request that succeeds sets toggleState to (state = "ON"); one
\* that fails (transport error, non-2xx, or an error reported in the response)
\* leaves toggleState as it was.
C2_ToggleFailureKeepsState ==
  [][\A a \in Agents, o \in Outcomes :
       /\ (OpenToggleDone(a, o) \/ TickToggleDone(a, o)) =>
             toggleState'[a] = IF o = "ok" THEN TRUE ELSE toggleState[a]
       /\ OffDone(a, o) =>
             toggleState'[a] = IF o = "ok" THEN FALSE ELSE toggleState[a]]_vars

\* ---- C3 ------------------------------------------------------------------
\* C3: when the process has exited after a single interrupt signal, every
\* agent has issued exactly one toggleDevice("OFF") request.
C3_ExactlyOneOffPerAgent ==
  (exited /\ sigints = 1) => \A a \in Agents : offIssued[a] = 1

\* ---- C4 ------------------------------------------------------------------
\* C4: a tick that starts with toggleState false issues a toggle ON request
\* and no heartbeat yet; the heartbeat of that tick is issued by the step in
\* which that toggle call finishes.  A tick that starts with toggleState true
\* issues no toggle request and issues its heartbeat at once.
C4_TickTogglesOnWhenOff ==
  [][\A a \in Agents :
       /\ (last'.op = "TickStart" /\ last'.a = a) =>
             IF ~toggleState[a]
               THEN /\ onIssued'[a] = onIssued[a] + 1
                    /\ hbIssued'[a] = hbIssued[a]
                    /\ tick'[a]["toggle"] = tick[a]["toggle"] + 1
               ELSE /\ onIssued'[a] = onIssued[a]
                    /\ hbIssued'[a] = hbIssued[a] + 1
                    /\ tick'[a]["toggle"] = tick[a]["toggle"]
       /\ tick'[a]["toggle"] < tick[a]["toggle"] =>
             /\ last'.op = "TickToggleDone" /\ last'.a = a
             /\ hbIssued'[a] = hbIssued[a] + 1
             /\ tick'[a]["heartbeat"] = tick[a]["heartbeat"] + 1]_vars

C4_Witness ==
  \E a \in Agents :
     /\ last.op = "TickStart" /\ last.a = a
     /\ tick[a]["toggle"] = 1
     /\ ~toggleState[a]

\* ---- C5 ------------------------------------------------------------------
\* C5: whatever the outcome of the tick's toggle call the heartbeat is issued
\* next, whatever the outcome of the heartbeat the wallet-details request is
\* issued next, a failed wallet-details call ends the tick normally, and a
\* tick enters the cycle-level error path (where toggleState is forced to
\* false) only at its end, by the fault of its own last statement.
C5_TickCallsIndependent ==
  [][\A a \in Agents :
       /\ (last'.a = a /\ last'.op = "TickStart" /\ toggleState[a]) =>
             hbIssued'[a] = hbIssued[a] + 1
       /\ \A o \in Outcomes :
             /\ TickToggleDone(a, o) =>
                   /\ hbIssued'[a] = hbIssued[a] + 1
                   /\ tick'[a]["heartbeat"] = tick[a]["heartbeat"] + 1
                   /\ tick'[a]["threw"] = tick[a]["threw"]
             /\ TickHeartbeatDone(a, o) =>
                   /\ walletIssued'[a] = walletIssued[a] + 1
                   /\ tick'[a]["wallet"] = tick[a]["wallet"] + 1
                   /\ tick'[a]["threw"] = tick[a]["threw"]
                   /\ toggleState'[a] = toggleState[a]
             /\ TickWalletDone(a, o, FALSE) =>
                   /\ tick'[a]["done"] = tick[a]["done"] + 1
                   /\ tick'[a]["threw"] = tick[a]["threw"]
                   /\ toggleState'[a] = toggleState[a]
       /\ tick'[a]["threw"] # tick[a]["threw"] =>
             /\ last'.a = a /\ last'.op = "TickWalletDone"
             /\ ~toggleState'[a]]_vars

\* the tick's ON toggle was rejected (toggleState is still false) and its
\* heartbeat has been issued all the same
C5_Witness ==
  \E a \in Agents :
     /\ last.op = "TickToggleDone" /\ last.a = a
     /\ ~toggleState[a]
     /\ tick[a]["heartbeat"] = 1
     /\ tick[a]["threw"] = 1

\* ---- C6 ------------------------------------------------------------------
\* C6 as stated: toggleState true implies that the agent has issued at least
\* one toggle ON request.
C6_OnOnlyAfterOnToggle ==
  \A a \in Agents : toggleState[a] => onIssued[a] >= 1

\* C6 amended: toggleState is true from construction, before any toggle
\* request is issued; after that it changes from false to true only in the
\* step in which a toggle ON request that the agent has issued returns, and
\* not when that request is rejected (transport error or non-2xx).
C6_TrueAtConstructionThenOnlyByOn ==
  /\ [](\A a \in Agents : onIssued[a] = 0 => toggleState[a])
  /\ [][\A a \in Agents :
          /\ (~toggleState[a] /\ toggleState'[a]) =>
                /\ last'.a = a
                /\ last'.op \in {"OpenToggleDone", "TickToggleDone"}
                /\ onIssued[a] >= 1
          /\ \A o \in Outcomes :
                (~Resolves(o) /\ (OpenToggleDone(a, o) \/ TickToggleDone(a, o))) =>
                   toggleState'[a] = toggleState[a]]_vars

C6_Witness ==
  \E a \in Agents :
     /\ last.op = "TickToggleDone" /\ last.a = a
     /\ tick[a]["threw"] = 1
     /\ toggleState[a]

\* ---- C7 ------------------------------------------------------------------
\* C7: uptimeMinutes of an agent changes only in the step that starts one of
\* its ticks, that step adds exactly 1, and every other step (opening
\* sequence, completions of toggle, heartbeat and wallet-details calls with
\* any outcome, the interrupt) leaves it as it is.
C7_UptimeOnlyByTickStart ==
  [][\A a \in Agents :
       IF last'.op = "TickStart" /\ last'.a = a
         THEN uptimeMinutes'[a] = uptimeMinutes[a] + 1
         ELSE uptimeMinutes'[a] = uptimeMinutes[a]]_vars

\* the second tick's ON toggle was rejected after the first tick ended in the
\* error path: two ticks started, uptimeMinutes is 2
C7_Witness ==
  \E a \in Agents :
     /\ last.op = "TickToggleDone" /\ last.a = a
     /\ ~toggleState[a]
     /\ tick[a]["threw"] = 1
     /\ uptimeMinutes[a] = 2

\* ---- C8 ------------------------------------------------------------------
\* C8: once an interrupt signal has been delivered no agent starts a tick and
\* no agent has a live recurring timer.
C8_NoTickAfterSigint ==
  [][sigints > 0 =>
       \A a \in Agents : uptimeMinutes'[a] = uptimeMinutes[a] /\ ~timer'[a]]_vars

\* ---- C9 ------------------------------------------------------------------
\* C9: if every issued request eventually returns, an interrupt signal is
\* eventually followed by the termination of the process.
C9_SigintLeadsToExit == (sigints > 0) ~> exited

\* the process has exited although the final OFF toggle was rejected
C9_Witness ==
  \E a \in Agents :
     /\ exited
     /\ last.op = "OffDone" /\ last.a = a
     /\ toggleState[a]

\* ---- C10 -----------------------------------------------------------------
\* C10: the step in which a heartbeat or wallet-details call returns, with any
\* outcome, leaves toggleState and uptimeMinutes of every agent as they were
\* and moves the caller on to its next statement: the opening sequence goes on
\* to register the timer, the tick goes on to the wallet-details request or to
\* its end.  (A fault of the tick's own log statement is not an outcome of the
\* call.)
C10_HeartbeatWalletFrame ==
  [][\A a \in Agents, o \in Outcomes :
       /\ OpenHeartbeatDone(a, o) =>
             /\ toggleState' = toggleState /\ uptimeMinutes' = uptimeMinutes
             /\ pc'[a] = "running" /\ timer'[a] /\ handler'[a] = handler[a] + 1
       /\ TickHeartbeatDone(a, o) =>
             /\ toggleState' = toggleState /\ uptimeMinutes' = uptimeMinutes
             /\ TicksInFlight(a)' = TicksInFlight(a)
       /\ TickWalletDone(a, o, FALSE) =>
             /\ toggleState' = toggleState /\ uptimeMinutes' = uptimeMinutes
             /\ tick'[a]["done"] = tick[a]["done"] + 1]_vars

C10_Witness ==
  \E a \in Agents :
     /\ last.op = "TickWalletDone" /\ last.a = a
     /\ tick[a]["done"] = 1
     /\ hbIssued[a] = 2 /\ walletIssued[a] = 1
     /\ toggleState[a] /\ uptimeMinutes[a] = 1

\* ---- C11 -----------------------------------------------------------------
\* C11: a registered timer is cleared by nothing but an interrupt signal: not
\* by the failure of a call and not by a cycle-level exception, which sets
\* toggleState to false and leaves the timer registered.  A registered timer
\* keeps firing: it fires again and again until a signal is delivered (or the
\* modelled number of firings is used up).
C11_TimerKeepsRunning ==
  /\ [][\A a \in Agents :
          /\ (timer[a] /\ ~timer'[a]) => last'.op = "Sigint"
          /\ tick'[a]["threw"] > tick[a]["threw"] =>
                (~toggleState'[a] /\ timer'[a] = timer[a])]_vars
  /\ \A a \in Agents : timer[a] ~> (sigints > 0 \/ TicksFired = MaxTicks)

\* a tick of the agent ended in the error path and its timer has fired again
C11_Witness ==
  \E a \in Agents :
     /\ sigints = 0
     /\ tick[a]["threw"] = 1
     /\ uptimeMinutes[a] = 2
     /\ timer[a]

\* ---- C12 -----------------------------------------------------------------
\* C12: the step in which a wallet-details call returns logs an earnings
\* estimate exactly when the response carries no error, the estimate is the
\* agent's uptimeMinutes at that moment times the rate of the response, no
\* other step logs one, and 4 minutes at rate 0.5 give 2 (shown as 2.0000).
C12_EarningsEstimate ==
  /\ [][\A a \in Agents, threw \in BOOLEAN :
          /\ TickWalletDone(a, "ok", threw) =>
                /\ Len(last'.est) = 1
                /\ last'.est[1].earnings = uptimeMinutes[a] * WalletDetails(a).rate
          /\ \A o \in Outcomes \ {"ok"} :
                TickWalletDone(a, o, threw) => last'.est = <<>>
          /\ (last'.a = a /\ last'.op # "TickWalletDone") => last'.est = <<>>]_vars
  /\ [](/\ EstimatedEarnings(4, [hasRate |-> TRUE, rate |-> 500000]) = 2000000
        /\ ToFixed4(2000000) = 20000)

\* two minutes at rate 0.5: the estimate is 1, shown as 1.0000
C12_Witness ==
  \E a \in Agents :
     /\ last.op = "TickWalletDone" /\ last.a = a
     /\ uptimeMinutes[a] = 2
     /\ last.est = <<[earnings |-> 1000000, shown |-> 10000]>>

\* ---- C13 -----------------------------------------------------------------
\* C13: every step that issues a heartbeat request, in the opening sequence
\* or in a tick, sends a payload with isInstalled = true, the two whitelisted
\* domains, the wallet address and the device hash (in string form) of the
\* issuing agent and of no other, and the value toggleState has at that moment.
C13_HeartbeatPayload ==
  /\ [](\A a \in Agents :
          (last.a = a /\ Len(last.hb) = 1) =>
             /\ last.hb[1].isInstalled = TRUE
             /\ last.hb[1].whitelistedUrls = <<"naorisprotocol.network", "google.com">>
             /\ last.hb[1].walletAddress = Account(a).walletAddress
             /\ last.hb[1].deviceHash = HashToString(Account(a).deviceHash)
             /\ \A b \in Agents \ {a} :
                   /\ last.hb[1].walletAddress # Account(b).walletAddress
                   /\ last.hb[1].deviceHash # HashToString(Account(b).deviceHash)
             /\ last.hb[1].toggleState = toggleState[a])
  /\ [][\A a \in Agents :
          hbIssued'[a] # hbIssued[a] =>
             (hbIssued'[a] = hbIssued[a] + 1 /\ last'.a = a /\ Len(last'.hb) = 1)]_vars

\* a tick's ON toggle was rejected and the heartbeat that follows reports off
C13_Witness ==
  \E a \in Agents :
     /\ last.op = "TickToggleDone" /\ last.a = a
     /\ Len(last.hb) = 1
     /\ last.hb[1].toggleState = FALSE
     /\ last.hb[1].deviceHash = IF a % 2 = 1 THEN ToString(100 + a) ELSE "d" \o ToString(a)

\* ---- C14 -----------------------------------------------------------------
\* C14: a tick moves through its positions in order and one at a time.  A
\* heartbeat request of a tick goes out either at the start of a tick that
\* needs no toggle or in the step in which the tick's ON toggle returns; a
\* wallet-details request goes out only in the step in which a heartbeat call
\* of a tick returns; a tick ends (uptime line logged, or error path) only in
\* the step in which its wallet-details call returns.
C14_TickStepsInSequence ==
  [][\A a \in Agents :
       /\ tick'[a]["heartbeat"] > tick[a]["heartbeat"] =>
             /\ tick'[a]["heartbeat"] = tick[a]["heartbeat"] + 1
             /\ hbIssued'[a] = hbIssued[a] + 1
             /\ walletIssued'[a] = walletIssued[a]
             /\ last'.a = a
             /\ \/ (last'.op = "TickStart" /\ toggleState[a]
                       /\ tick'[a]["toggle"] = tick[a]["toggle"])
                \/ (last'.op = "TickToggleDone"
                       /\ tick'[a]["toggle"] = tick[a]["toggle"] - 1)
       /\ walletIssued'[a] # walletIssued[a] =>
             /\ walletIssued'[a] = walletIssued[a] + 1
             /\ last'.a = a /\ last'.op = "TickHeartbeatDone"
             /\ tick'[a]["heartbeat"] = tick[a]["heartbeat"] - 1
             /\ tick'[a]["wallet"] = tick[a]["wallet"] + 1
       /\ TicksCompleted(a)' # TicksCompleted(a) =>
             /\ TicksCompleted(a)' = TicksCompleted(a) + 1
             /\ last'.a = a /\ last'.op = "TickWalletDone"
             /\ tick'[a]["wallet"] = tick[a]["wallet"] - 1
       /\ TicksInFlight(a)' + TicksCompleted(a)' # TicksInFlight(a) + TicksCompleted(a) =>
             (last'.a = a /\ last'.op = "TickStart")]_vars

\* one tick ended in the error path, the next one went through toggle,
\* heartbeat and wallet details and logged its uptime line
C14_Witness ==
  \E a \in Agents :
     /\ last.op = "TickWalletDone" /\ last.a = a
     /\ tick[a]["threw"] = 1 /\ tick[a]["done"] = 1
     /\ onIssued[a] = 2 /\ hbIssued[a] = 3 /\ walletIssued[a] = 2

\* ---- C15 -----------------------------------------------------------------
\* C15: the timer of an agent can fire while earlier firings of that agent
\* still await a response, and a firing leaves those where they are; so two
\* ticks of one agent can be in flight at the same time.
C15_TicksMayOverlap ==
  \A a \in Agents :
     (timer[a] /\ ~exited /\ TicksFired < MaxTicks /\ TicksInFlight(a) > 0) =>
        ENABLED (TickStart(a) /\ TicksInFlight(a)' = TicksInFlight(a) + 1)

C15_Witness ==
  \E a \in Agents : TicksInFlight(a) = 2 /\ uptimeMinutes[a] = 2

\* ---- C16 -----------------------------------------------------------------
\* C16: while the opening toggle is awaited the agent has issued one ON toggle
\* and nothing else; while the opening heartbeat is awaited it has issued that
\* one toggle and one heartbeat; in both positions it has no timer and no
\* tick, and it never issues a wallet-details request there.  Whatever the
\* outcome of the opening toggle the heartbeat follows, and whatever the
\* outcome of the opening heartbeat the timer is registered.
C16_OpeningSequence ==
  /\ [](\A a \in Agents :
          /\ pc[a] = "constructed" =>
                (onIssued[a] = 0 /\ hbIssued[a] = 0)
          /\ pc[a] = "openToggle" =>
                (onIssued[a] = 1 /\ hbIssued[a] = 0)
          /\ pc[a] = "openHeartbeat" =>
                (onIssued[a] = 1 /\ hbIssued[a] = 1)
          /\ pc[a] # "running" =>
                /\ ~timer[a] /\ uptimeMinutes[a] = 0 /\ walletIssued[a] = 0
                /\ TicksInFlight(a) + TicksCompleted(a) = 0)
  /\ [][\A a \in Agents, o \in Outcomes :
          /\ OpenToggleDone(a, o) =>
                (pc'[a] = "openHeartbeat" /\ hbIssued'[a] = 1 /\ ~timer'[a])
          /\ OpenHeartbeatDone(a, o) =>
                /\ pc'[a] = "running" /\ timer'[a]
                /\ onIssued'[a] = 1 /\ hbIssued'[a] = 1 /\ walletIssued'[a] = 0]_vars

C16_Witness ==
  \E a \in Agents :
     /\ last.op = "OpenHeartbeatDone" /\ last.a = a
     /\ pc[a] = "running" /\ timer[a]
     /\ onIssued[a] = 1 /\ hbIssued[a] = 1 /\ uptimeMinutes[a] = 0

C18_OffIsLastRequest ==
  [][\A a \in Agents :
       offIssued[a] > 0 =>
          /\ onIssued'[a] = onIssued[a]
          /\ hbIssued'[a] = hbIssued[a]
          /\ walletIssued'[a] = walletIssued[a]]_vars

\* ---- C19 -----------------------------------------------------------------
\* C19: when the process has exited no agent's OFF toggle still awaits its
\* response.
C19_ExitAfterAllOffDone ==
  exited => \A a \in Agents : offPending[a] = 0

\* ---- C20 -----------------------------------------------------------------
\* C20: before any interrupt signal, an agent none of whose ticks has ended in
\* the error path has toggleState true, has issued no ON toggle besides the
\* opening one, has no tick waiting for a toggle, and every heartbeat it
\* issues reports toggleState = true.
C20_OnUnlessExceptionOrSigint ==
  \A a \in Agents :
     (sigints = 0 /\ tick[a]["threw"] = 0) =>
        /\ toggleState[a]
        /\ onIssued[a] <= 1
        /\ tick[a]["toggle"] = 0
        /\ (last.a = a /\ Len(last.hb) = 1) => last.hb[1].toggleState = TRUE

C20_Witness ==
  \E a \in Agents :
     /\ sigints = 0 /\ tick[a]["threw"] = 0
     /\ last.op = "TickStart" /\ last.a = a
     /\ uptimeMinutes[a] = 2
     /\ onIssued[a] = 1
     /\ toggleState[a]

TypeOK ==
  /\ pc \in [Agents -> {"constructed", "openToggle", "openHeartbeat", "running"}]
  /\ toggleState \in [Agents -> BOOLEAN]
  /\ uptimeMinutes \in [Agents -> 0..MaxTicks]
  /\ tick \in [Agents -> [TickPos -> 0..MaxTicks]]
  /\ exited \in BOOLEAN
====
